---- MODULE Spec2Model ----
(***************************************************************************)
(* Team search of the TFT simulator (src/js/logic.js, second definition   *)
(* of search, lines 351-621): trait index, candidate filter, suffix-mask  *)
(* pruning, iterative-deepening backtracking, scoring and ranking.        *)
(*                                                                         *)
(* Unit objects are references: a unit is its index in the data set        *)
(* Champions.  Bit masks are sets of bit positions of a 32-bit integer.    *)
(* Typed arrays keep their width (Int8Array wraps at 8 bits).              *)
(***************************************************************************)
EXTENDS Integers, Sequences, FiniteSets, TLC

VARIABLES
    traitConfig,         \* the global traitRules the page loaded (name, tiers per trait, in key order)
    optimizedDataCache,  \* the process-wide memoized index, or Null
    args,                \* the arguments of the search call (maxLevel, reqs, lockedSet, bannedSet, champions)
    timer,               \* the closure of the pending setTimeout callback, or Null
    promise,             \* the promise search returned: none / pending / fulfilled with a value
    results,             \* the closure's results array of the last call (as left by the deferred pass)
    uiLockedSet,         \* ui.js: the global lockedSet, in insertion order
    uiBannedSet,         \* ui.js: the global bannedSet
    timers,              \* the pending setTimeout callbacks of the searches handleSearch started, oldest first
    started,             \* the number of searches handleSearch has started
    output               \* ui.js: what the output element shows, and for which search

vars ==
    <<traitConfig, optimizedDataCache, args, timer, promise, results,
      uiLockedSet, uiBannedSet, timers, started, output>>

\* the state of the page around the search
uiVars == <<uiLockedSet, uiBannedSet, timers, started, output>>

\* null: no cached index, no pending callback
Null == [null |-> TRUE]

-----------------------------------------------------------------------------
(* Bounds of the explored inputs *)

MaxLevel == 3
MaxTarget == 2
MaxReqs == 2
\* the number of searches the page starts
MaxSearches == 2
\* the largest slot budget of the calls on the large pool
BigLevel == 4

-----------------------------------------------------------------------------
(* Data set: the trait configuration and the unit pool (shape and values   *)
(* after the mock of src/search_test.js; Baron takes 2 slots as in         *)
(* src/test_baron.js).  slots = 0 stands for "no slots field", hasTiers =  *)
(* FALSE for a trait whose rule is missing (a falsy value).                *)

traitRules ==
    << [trait |-> "Ionia",   hasTiers |-> TRUE, tiers |-> <<3, 6, 9>>],
       [trait |-> "Void",    hasTiers |-> TRUE, tiers |-> <<3, 6, 8>>],
       [trait |-> "Bruiser", hasTiers |-> TRUE, tiers |-> <<2, 4, 6>>] >>

Champions ==
    << [name |-> "Shen",     traits |-> <<"Ionia", "Bruiser">>, cost |-> 2, slots |-> 0, traitCounts |-> <<>>],
       [name |-> "ChoGath",  traits |-> <<"Void", "Bruiser">>,  cost |-> 1, slots |-> 0, traitCounts |-> <<>>],
       [name |-> "Malzahar", traits |-> <<"Void", "Sorcerer">>, cost |-> 1, slots |-> 0, traitCounts |-> <<>>],
       [name |-> "RekSai",   traits |-> <<"Void", "Bruiser">>,  cost |-> 3, slots |-> 0, traitCounts |-> <<>>],
       [name |-> "Baron",    traits |-> <<"Void">>,             cost |-> 7, slots |-> 2,
        traitCounts |-> << [trait |-> "Void", count |-> 2] >>],
       [name |-> "Jhin",     traits |-> <<"Ionia", "Gunslinger">>, cost |-> 1, slots |-> 0, traitCounts |-> <<>>],
       [name |-> "Ahri",     traits |-> <<"Ionia", "Arcanist">>,   cost |-> 4, slots |-> 0, traitCounts |-> <<>>],
       [name |-> "Karma",    traits |-> <<"Ionia", "Invoker">>,    cost |-> 3, slots |-> 0, traitCounts |-> <<>>],
       [name |-> "Irelia",   traits |-> <<"Ionia", "Challenger">>, cost |-> 1, slots |-> 0, traitCounts |-> <<>>],
       [name |-> "Sett",     traits |-> <<"Ionia", "Juggernaut">>, cost |-> 2, slots |-> 0, traitCounts |-> <<>>],
       [name |-> "Kassadin", traits |-> <<"Void", "Bastion">>,     cost |-> 2, slots |-> 0, traitCounts |-> <<>>],
       [name |-> "KaiSa",    traits |-> <<"Void", "Challenger">>,  cost |-> 4, slots |-> 0, traitCounts |-> <<>>],
       [name |-> "BelVeth",  traits |-> <<"Void", "Empress">>,     cost |-> 5, slots |-> 0, traitCounts |-> <<>>] >>

Shen == 1
ChoGath == 2
Malzahar == 3
RekSai == 4
Baron == 5
Jhin == 6
Ahri == 7
Karma == 8
Irelia == 9
Sett == 10
Kassadin == 11
KaiSa == 12
BelVeth == 13

\* the pool the application passes to every search (ui.js: the global champions)
champions == <<Shen, ChoGath, Malzahar, RekSai, Baron>>

\* the Ionia and Void units of the mock, in the order of its champions array
bigPool ==
    <<Shen, Jhin, Ahri, Karma, Irelia, Sett, ChoGath, Malzahar, Kassadin, RekSai, KaiSa,
      BelVeth, Baron>>

\* the width of the integer the masks are packed in (1 << id, Int32Array)
MaskWidth == 32

\* names of further traits of a configuration that is wider than a mask
FillerTraits ==
    << "T02", "T03", "T04", "T05", "T06", "T07", "T08", "T09", "T10", "T11",
       "T12", "T13", "T14", "T15", "T16", "T17", "T18", "T19", "T20", "T21",
       "T22", "T23", "T24", "T25", "T26", "T27", "T28", "T29", "T30", "T31" >>

\* a trait configuration of MaskWidth + 1 traits: Ionia has id 0, Void id 1,
\* Bruiser id MaskWidth
wideRules ==
    << traitRules[1], traitRules[2] >>
    \o [i \in DOMAIN FillerTraits |-> [trait |-> FillerTraits[i], hasTiers |-> TRUE, tiers |-> <<2, 4>>]]
    \o << traitRules[3] >>

-----------------------------------------------------------------------------
(* Helpers for JavaScript values *)

\* a 32-bit mask with bit id set: 1 << id (the shift count is taken modulo 32)
Bit(id) == {id % 32}

\* the value an Int8Array element holds after storing n
ToInt8(n) == ((n + 128) % 256) - 128

Range(s) == {s[i] : i \in DOMAIN s}

\* c.slots || 1
SlotsOf(c) == IF Champions[c].slots = 0 THEN 1 ELSE Champions[c].slots

\* c.traitCounts && c.traitCounts[traitName], 0 when falsy
TraitCountOf(c, traitName) ==
    LET tc == Champions[c].traitCounts
        hit == {i \in DOMAIN tc : tc[i].trait = traitName}
    IN IF hit = {} THEN 0 ELSE tc[CHOOSE i \in hit : TRUE].count

-----------------------------------------------------------------------------
(* Optimization: Bitmask & Precomputed Data Structures *)

numTraitsOf(rules) == Len(rules)

\* traitToId: trait name -> 0-based id, for the keys of traitRules
traitToIdOf(rules) ==
    [t \in {rules[i].trait : i \in DOMAIN rules} |->
        (CHOOSE i \in DOMAIN rules : rules[i].trait = t) - 1]

\* traitToId[t] !== undefined
Known(traitToId, t) == t \in DOMAIN traitToId

\* thresholds[i] = traitRules[traits[i]] || [2]
thresholdsOf(rules) ==
    [i \in 0..(Len(rules) - 1) |->
        IF rules[i + 1].hasTiers THEN rules[i + 1].tiers ELSE <<2>>]

\* c.traits.map(t => traitToId[t]).filter(id => id !== undefined)
RECURSIVE TraitIdsOf(_, _)
TraitIdsOf(traits, traitToId) ==
    IF traits = <<>> THEN <<>>
    ELSE LET rest == TraitIdsOf(Tail(traits), traitToId)
         IN IF Known(traitToId, Head(traits)) THEN <<traitToId[Head(traits)]>> \o rest ELSE rest

\* c.traits.find(t => traitToId[t] === id): the first name with that id
TraitNameOf(c, traitToId, id) ==
    LET tr == Champions[c].traits
        Is(i) == Known(traitToId, tr[i]) /\ traitToId[tr[i]] = id
        first == CHOOSE i \in DOMAIN tr : Is(i) /\ \A j \in 1..(i - 1) : ~Is(j)
    IN tr[first]

\* mutant: declared overrides are ignored
ContributionOf_AlwaysOne(c, traitToId, id) == 1

\* the count a unit contributes to trait id: its traitCounts entry if truthy, else 1
ContributionOf(c, traitToId, id) ==
    LET count == TraitCountOf(c, TraitNameOf(c, traitToId, id))
    IN IF count # 0 THEN count ELSE 1

\* tCounts: Int8Array(numTraits), tCounts[id] = count for each id of tIds
tCountsOf(c, traitToId, numTraits) ==
    LET tIds == TraitIdsOf(Champions[c].traits, traitToId)
    IN [id \in 0..(numTraits - 1) |->
            IF id \in Range(tIds) THEN ToInt8(ContributionOf(c, traitToId, id)) ELSE 0]

\* tIds.reduce((m, id) => m | (1 << id), 0)
MaskOf(tIds) == UNION {Bit(tIds[i]) : i \in DOMAIN tIds}

\* the struct of one pool unit
championDataOf(c, idx, traitToId, numTraits) ==
    LET tIds == TraitIdsOf(Champions[c].traits, traitToId)
    IN [original    |-> c,
        id          |-> idx,
        cost        |-> Champions[c].cost,
        slots       |-> SlotsOf(c),
        traitIds    |-> tIds,
        traitCounts |-> tCountsOf(c, traitToId, numTraits),
        mask        |-> MaskOf(tIds)]

\* the index built from a pool
BuildOptimizedData(pool) ==
    LET traitToId == traitToIdOf(traitConfig)
        numTraits == numTraitsOf(traitConfig)
    IN [traitToId    |-> traitToId,
        thresholds   |-> thresholdsOf(traitConfig),
        championData |-> [i \in DOMAIN pool |-> championDataOf(pool[i], i - 1, traitToId, numTraits)],
        numTraits    |-> numTraits]

\* getOptimizedData(champions): the cached index if there is one, else a new one
getOptimizedData(cache, pool) ==
    IF cache # Null THEN cache ELSE BuildOptimizedData(pool)

RECURSIVE TierScore(_, _)
TierScore(count, tiers) ==
    IF tiers = <<>> THEN 0
    ELSE IF count >= Head(tiers) THEN 1 + TierScore(count, Tail(tiers))
    ELSE 0

RECURSIVE SumScores(_, _, _)
SumScores(i, currentCounts, thresholds) ==
    IF i \notin DOMAIN thresholds THEN 0
    ELSE (IF currentCounts[i] > 0 THEN TierScore(currentCounts[i], thresholds[i]) ELSE 0)
         + SumScores(i + 1, currentCounts, thresholds)

\* mutant: a trait scores 1 as soon as a unit of the team has it
calcScoreOptimized_Presence(currentCounts, thresholds) ==
    Cardinality({i \in DOMAIN thresholds : currentCounts[i] > 0})

calcScoreOptimized(currentCounts, thresholds) == SumScores(0, currentCounts, thresholds)

-----------------------------------------------------------------------------
(* search: the synchronous part *)

MAX_RESULTS == 50

ZeroCounts(numTraits) == [i \in 0..(numTraits - 1) |-> 0]

\* mutant: a target of 0 is stored as 1 (r.target || 1)
RECURSIVE PreprocessReqs_ZeroAsOne(_, _, _)
PreprocessReqs_ZeroAsOne(reqs, traitToId, acc) ==
    IF reqs = <<>> THEN acc
    ELSE LET r == Head(reqs)
         IN IF Known(traitToId, r.trait)
            THEN LET id == traitToId[r.trait]
                 IN PreprocessReqs_ZeroAsOne(Tail(reqs), traitToId,
                        [neededCounts    |-> [acc.neededCounts EXCEPT
                                                 ![id] = ToInt8(IF r.target = 0 THEN 1 ELSE r.target)],
                         neededMask      |-> acc.neededMask \cup Bit(id),
                         hasRequirements |-> TRUE])
            ELSE PreprocessReqs_ZeroAsOne(Tail(reqs), traitToId, acc)

\* reqs.forEach: neededCounts (Int8Array), neededMask, hasRequirements
RECURSIVE PreprocessReqs(_, _, _)
PreprocessReqs(reqs, traitToId, acc) ==
    IF reqs = <<>> THEN acc
    ELSE LET r == Head(reqs)
         IN IF Known(traitToId, r.trait)
            THEN LET id == traitToId[r.trait]
                 IN PreprocessReqs(Tail(reqs), traitToId,
                        [neededCounts    |-> [acc.neededCounts EXCEPT ![id] = ToInt8(r.target)],
                         neededMask      |-> acc.neededMask \cup Bit(id),
                         hasRequirements |-> TRUE])
            ELSE PreprocessReqs(Tail(reqs), traitToId, acc)

\* tIds.forEach(id => currentCounts[id] += count) for a locked unit
RECURSIVE AddLockedCounts(_, _, _, _)
AddLockedCounts(c, tIds, traitToId, currentCounts) ==
    IF tIds = <<>> THEN currentCounts
    ELSE LET id == Head(tIds)
         IN AddLockedCounts(c, Tail(tIds), traitToId,
                [currentCounts EXCEPT ![id] = ToInt8(@ + ContributionOf(c, traitToId, id))])

\* mutant: a locked unit is taken to cost one slot
SeedOne_OneSlot(c, traitToId, cur) ==
    [activeLockedIds |-> cur.activeLockedIds \cup {c},
     currentTeam     |-> Append(cur.currentTeam, c),
     currentCost     |-> cur.currentCost + Champions[c].cost,
     currentSlots    |-> cur.currentSlots + 1,
     currentCounts   |-> AddLockedCounts(c, TraitIdsOf(Champions[c].traits, traitToId),
                                         traitToId, cur.currentCounts)]

\* mutant: the locked unit is counted but not pushed on the team
SeedOne_NotPushed(c, traitToId, cur) ==
    [activeLockedIds |-> cur.activeLockedIds \cup {c},
     currentTeam     |-> cur.currentTeam,
     currentCost     |-> cur.currentCost + Champions[c].cost,
     currentSlots    |-> cur.currentSlots + SlotsOf(c),
     currentCounts   |-> AddLockedCounts(c, TraitIdsOf(Champions[c].traits, traitToId),
                                         traitToId, cur.currentCounts)]

\* the body of lockedSet.forEach for a unit that is not yet seeded
SeedOne(c, traitToId, cur) ==
    [activeLockedIds |-> cur.activeLockedIds \cup {c},
     currentTeam     |-> Append(cur.currentTeam, c),
     currentCost     |-> cur.currentCost + Champions[c].cost,
     currentSlots    |-> cur.currentSlots + SlotsOf(c),
     currentCounts   |-> AddLockedCounts(c, TraitIdsOf(Champions[c].traits, traitToId),
                                         traitToId, cur.currentCounts)]

\* lockedSet.forEach(c => { if (activeLockedIds.has(c)) return; ... })
RECURSIVE SeedLocked(_, _, _)
SeedLocked(locked, traitToId, cur) ==
    IF locked = <<>> THEN cur
    ELSE IF Head(locked) \in cur.activeLockedIds
         THEN SeedLocked(Tail(locked), traitToId, cur)
         ELSE SeedLocked(Tail(locked), traitToId, SeedOne(Head(locked), traitToId, cur))

EmptyTeam(numTraits) ==
    [activeLockedIds |-> {}, currentTeam |-> <<>>, currentCost |-> 0, currentSlots |-> 0,
     currentCounts |-> ZeroCounts(numTraits)]

\* mutant: the filter lets banned units through
IsCandidate_BannedKept(c, bannedSet, lockedSet, hasRequirements, neededMask) ==
    IF c.original \in Range(lockedSet) THEN FALSE
    ELSE IF hasRequirements THEN (c.mask \cap neededMask) # {}
    ELSE TRUE

\* mutant: the filter lets locked units through
IsCandidate_LockedKept(c, bannedSet, lockedSet, hasRequirements, neededMask) ==
    IF c.original \in bannedSet THEN FALSE
    ELSE IF hasRequirements THEN (c.mask \cap neededMask) # {}
    ELSE TRUE

\* the predicate of championData.filter
IsCandidate(c, bannedSet, lockedSet, hasRequirements, neededMask) ==
    IF c.original \in bannedSet THEN FALSE
    ELSE IF c.original \in Range(lockedSet) THEN FALSE
    ELSE IF hasRequirements THEN (c.mask \cap neededMask) # {}
    ELSE TRUE

RECURSIVE FilterCandidates(_, _, _, _, _)
FilterCandidates(championData, bannedSet, lockedSet, hasRequirements, neededMask) ==
    IF championData = <<>> THEN <<>>
    ELSE LET rest == FilterCandidates(Tail(championData), bannedSet, lockedSet,
                                      hasRequirements, neededMask)
         IN IF IsCandidate(Head(championData), bannedSet, lockedSet, hasRequirements, neededMask)
            THEN <<Head(championData)>> \o rest
            ELSE rest

\* insertion of x behind every element that does not cost more (the sort is stable)
RECURSIVE InsertByCost(_, _)
InsertByCost(s, x) ==
    IF s = <<>> THEN <<x>>
    ELSE IF x.cost - Head(s).cost < 0 THEN <<x>> \o s
    ELSE <<Head(s)>> \o InsertByCost(Tail(s), x)

\* candidates.sort((a, b) => a.cost - b.cost)
RECURSIVE SortByCost(_)
SortByCost(s) ==
    IF s = <<>> THEN <<>>
    ELSE InsertByCost(SortByCost(SubSeq(s, 1, Len(s) - 1)), s[Len(s)])

\* suffixMasks[i] = suffixMasks[i + 1] | candidates[i].mask, 0-based, suffixMasks[n] = 0
suffixMasksOf(candidates) ==
    [i \in 0..Len(candidates) |->
        UNION {candidates[k].mask : k \in (i + 1)..Len(candidates)}]

\* mutant: a banned unit is not seeded, though it is locked
MakeClosure_BanFirst(a, data) ==
    LET pre == PreprocessReqs(a.reqs, data.traitToId,
                   [neededCounts |-> ZeroCounts(data.numTraits), neededMask |-> {},
                    hasRequirements |-> FALSE])
        cur == SeedLocked(SelectSeq(a.lockedSet, LAMBDA u : u \notin a.bannedSet),
                          data.traitToId, EmptyTeam(data.numTraits))
        candidates == SortByCost(FilterCandidates(data.championData, a.bannedSet, a.lockedSet,
                                                  pre.hasRequirements, pre.neededMask))
    IN [maxLevel     |-> a.maxLevel,
        thresholds   |-> data.thresholds,
        numTraits    |-> data.numTraits,
        neededCounts |-> pre.neededCounts,
        cur          |-> cur,
        candidates   |-> candidates,
        nCandidates  |-> Len(candidates),
        suffixMasks  |-> suffixMasksOf(candidates),
        maxAdded     |-> a.maxLevel - cur.currentSlots]

\* the closure the deferred pass runs in; cur is the seeded team
MakeClosure(a, data) ==
    LET pre == PreprocessReqs(a.reqs, data.traitToId,
                   [neededCounts |-> ZeroCounts(data.numTraits), neededMask |-> {},
                    hasRequirements |-> FALSE])
        cur == SeedLocked(a.lockedSet, data.traitToId, EmptyTeam(data.numTraits))
        candidates == SortByCost(FilterCandidates(data.championData, a.bannedSet, a.lockedSet,
                                                  pre.hasRequirements, pre.neededMask))
    IN [maxLevel     |-> a.maxLevel,
        thresholds   |-> data.thresholds,
        numTraits    |-> data.numTraits,
        neededCounts |-> pre.neededCounts,
        cur          |-> cur,
        candidates   |-> candidates,
        nCandidates  |-> Len(candidates),
        suffixMasks  |-> suffixMasksOf(candidates),
        maxAdded     |-> a.maxLevel - cur.currentSlots]

-----------------------------------------------------------------------------
(* search: the deferred pass *)

\* mutant: a requirement counts as met one unit early
getUnsatisfiedMask_OffByOne(neededCounts, currentCounts, numTraits) ==
    UNION {Bit(i) : i \in {k \in 0..(numTraits - 1) :
                              neededCounts[k] > 0 /\ currentCounts[k] + 1 < neededCounts[k]}}

getUnsatisfiedMask(neededCounts, currentCounts, numTraits) ==
    UNION {Bit(i) : i \in {k \in 0..(numTraits - 1) :
                              neededCounts[k] > 0 /\ currentCounts[k] < neededCounts[k]}}

\* for (i < addedTraits.length) currentCounts[id] += cand.traitCounts[id]
RECURSIVE AddCounts(_, _, _)
AddCounts(addedTraits, cand, currentCounts) ==
    IF addedTraits = <<>> THEN currentCounts
    ELSE LET id == Head(addedTraits)
         IN AddCounts(Tail(addedTraits), cand,
                [currentCounts EXCEPT ![id] = ToInt8(@ + cand.traitCounts[id])])

\* mutant: a candidate that fills the budget exactly is not added
CanAdd_Strict(currentSlots, cand, maxLevel) == currentSlots + cand.slots < maxLevel

\* mutant: every candidate is taken to cost one slot
CanAdd_OneSlot(currentSlots, cand, maxLevel) == currentSlots + 1 <= maxLevel

\* the guard of "Try Adding"
CanAdd(currentSlots, cand, maxLevel) == currentSlots + cand.slots <= maxLevel

\* the state inside the add branch (undone by the backtrack after the recursive call)
AddUnit(cur, cand) ==
    [activeLockedIds |-> cur.activeLockedIds,
     currentTeam     |-> Append(cur.currentTeam, cand.original),
     currentCost     |-> cur.currentCost + cand.cost,
     currentSlots    |-> cur.currentSlots + cand.slots,
     currentCounts   |-> AddCounts(cand.traitIds, cand, cur.currentCounts)]

\* mutant: the record carries no score
ResultOf_NoScore(cl, cur) ==
    [team      |-> cur.currentTeam,
     score     |-> 0,
     totalCost |-> cur.currentCost]

\* the record pushed for a team that meets every requirement
ResultOf(cl, cur) ==
    [team      |-> cur.currentTeam,
     score     |-> calcScoreOptimized(cur.currentCounts, cl.thresholds),
     totalCost |-> cur.currentCost]

\* mutant: a branch is cut unless the remaining candidates have exactly the open bits
Pruned_Exact(unsatisfied, suffixMask) == suffixMask # unsatisfied

\* the pruning test: the remaining candidates lack a bit of the unsatisfied mask
Pruned(unsatisfied, suffixMask) == (unsatisfied \cap suffixMask) # unsatisfied

\* mutant: the search is cut short one result late
CapReached_Late(res) == Len(res) > MAX_RESULTS * 2

\* results.length >= MAX_RESULTS * 2
CapReached(res) == Len(res) >= MAX_RESULTS * 2

\* solve_depth_limited(idx, allowedAdds) in state cur; returns the results array after the call
RECURSIVE solve_depth_limited(_, _, _, _, _)
solve_depth_limited(cl, idx, allowedAdds, cur, res) ==
    IF CapReached(res) THEN res
    ELSE LET unsatisfied == getUnsatisfiedMask(cl.neededCounts, cur.currentCounts, cl.numTraits)
         IN IF unsatisfied = {} THEN Append(res, ResultOf(cl, cur))
            ELSE IF allowedAdds <= 0 THEN res
            ELSE IF idx >= cl.nCandidates THEN res
            ELSE IF cur.currentSlots >= cl.maxLevel THEN res
            ELSE IF Pruned(unsatisfied, cl.suffixMasks[idx]) THEN res
            ELSE LET cand == cl.candidates[idx + 1]
                     added == IF CanAdd(cur.currentSlots, cand, cl.maxLevel)
                              THEN solve_depth_limited(cl, idx + 1, allowedAdds - 1,
                                                       AddUnit(cur, cand), res)
                              ELSE res
                 IN solve_depth_limited(cl, idx + 1, allowedAdds, cur, added)

\* mutant: the loop breaks only once more than one result is recorded
ContinueDepth_UntilTwo(cl, depth, res) == depth <= cl.maxAdded /\ ~(Len(res) > 1)

\* mutant: the loop does not break once a pass has recorded results
ContinueDepth_NoBreak(cl, depth, res) == depth <= cl.maxAdded

\* whether the depth loop goes on to pass depth with res recorded so far
ContinueDepth(cl, depth, res) == depth <= cl.maxAdded /\ ~(Len(res) > 0)

\* mutant: one pass that may add up to maxAdded units
IDDFS_DeepFirst(cl, depth, res) == solve_depth_limited(cl, 0, cl.maxAdded, cl.cur, res)

\* for (depth = 0; depth <= maxAdded; depth++) { if (results.length > 0) break; solve(0, depth) }
RECURSIVE IDDFS(_, _, _)
IDDFS(cl, depth, res) ==
    IF ContinueDepth(cl, depth, res)
    THEN IDDFS(cl, depth + 1, solve_depth_limited(cl, 0, depth, cl.cur, res))
    ELSE res

\* the comparator of the final sort
CompareResults(a, b) ==
    IF Len(a.team) # Len(b.team) THEN Len(a.team) - Len(b.team)
    ELSE IF b.score # a.score THEN b.score - a.score
    ELSE b.totalCost - a.totalCost

\* the place a stable sort gives the i-th result: after every result that
\* compares lower, and after the equal ones recorded before it
SortedPlace(s, i) ==
    1 + Cardinality({j \in DOMAIN s :
                        \/ CompareResults(s[j], s[i]) < 0
                        \/ (j < i /\ CompareResults(s[j], s[i]) = 0)})

SortAll(s) ==
    LET place == [i \in DOMAIN s |-> SortedPlace(s, i)]
    IN [p \in DOMAIN s |-> s[CHOOSE i \in DOMAIN s : place[i] = p]]

\* mutant: the results stay in the order the search recorded them
SortResults_Unsorted(res) == res

\* results.sort(comparator), stable
SortResults(res) == SortAll(res)

\* results.slice(0, MAX_RESULTS)
Slice(res) == SubSeq(res, 1, IF Len(res) < MAX_RESULTS THEN Len(res) ELSE MAX_RESULTS)

\* mutant: one pass that may add up to maxAdded units, and no ranking
DeferredPass_OnePass(cl) == solve_depth_limited(cl, 0, cl.maxAdded, cl.cur, <<>>)

\* the whole deferred pass: the results array as it is left (sorted in place)
DeferredPass(cl) == SortResults(IDDFS(cl, 0, <<>>))

-----------------------------------------------------------------------------
(* Inputs *)

\* trait names a requirement may carry; "Invoker" is no trait of the catalog
ReqTraits == {"Void", "Bruiser", "Invoker"}

ReqEntries == [trait : ReqTraits, target : 0..MaxTarget]

ReqLists == UNION {[1..n -> ReqEntries] : n \in 0..MaxReqs}

\* locked sets, in insertion order
LockedSets == {<<>>, <<ChoGath>>, <<Shen>>, <<Baron>>, <<RekSai, Shen>>}

BannedSets == {{}, {ChoGath}, {Baron}, {Shen, RekSai}}

\* another pool a caller of search may pass
otherPool == <<Baron, RekSai, ChoGath>>

Pools == {champions, otherPool}

Inputs ==
    [maxLevel : 1..MaxLevel, reqs : ReqLists, lockedSet : LockedSets,
     bannedSet : BannedSets, champions : {champions}]

\* calls made with the wide trait configuration: at most one requirement
WideInputs ==
    [maxLevel : 1..MaxLevel, reqs : UNION {[1..n -> ReqEntries] : n \in 0..1},
     lockedSet : LockedSets, bannedSet : BannedSets, champions : {champions}]

\* calls on the large pool
Req(t, n) == [trait |-> t, target |-> n]

BigReqLists ==
    { <<>>,
      <<Req("Ionia", 2)>>, <<Req("Ionia", 3)>>, <<Req("Void", 2)>>, <<Req("Void", 3)>>,
      <<Req("Bruiser", 2)>>, <<Req("Invoker", 1)>>, <<Req("Void", 0)>>,
      <<Req("Ionia", 1), Req("Void", 1)>>, <<Req("Ionia", 2), Req("Void", 1)>>,
      <<Req("Ionia", 2), Req("Void", 2)>>, <<Req("Ionia", 2), Req("Void", 3)>>,
      <<Req("Void", 3), Req("Void", 1)>>, <<Req("Void", 1), Req("Void", 3)>>,
      <<Req("Ionia", 2), Req("Void", 0)>>, <<Req("Ionia", 2), Req("Invoker", 1)>> }

\* the slot budget of the completeness test
HighLevel == 9

BigLockedSets ==
    {<<>>, <<Baron>>, <<Shen>>, <<Jhin, ChoGath>>,
     <<Baron, ChoGath, Malzahar, Kassadin, RekSai>>}

BigBannedSets == {{}, {Baron}, {Baron, Shen}}

BigInputs ==
    [maxLevel : (1..BigLevel) \cup {HighLevel}, reqs : BigReqLists, lockedSet : BigLockedSets,
     bannedSet : BigBannedSets, champions : {bigPool}]

-----------------------------------------------------------------------------
(* State machine *)

NoPromise == [state |-> "none", value |-> <<>>]

\* the output element before any search
NoOutput == [id |-> 0, state |-> "empty", args |-> <<>>, list |-> <<>>]

\* the page as loaded: two empty sets, nothing searched
UIStart ==
    /\ uiLockedSet = <<>>
    /\ uiBannedSet = {}
    /\ timers = <<>>
    /\ started = 0
    /\ output = NoOutput

Init ==
    /\ traitConfig = traitRules
    /\ optimizedDataCache = Null
    /\ args \in Inputs
    /\ timer = Null
    /\ promise = NoPromise
    /\ results = <<>>
    /\ UIStart

\* search(maxLevel, reqs, lockedSet, bannedSet, champions) up to its return;
\* the caller awaits a call before making the next one
Search ==
    /\ promise.state # "pending"
    /\ LET data == getOptimizedData(optimizedDataCache, args.champions)
           cl == MakeClosure(args, data)
       IN /\ optimizedDataCache' = data
          /\ results' = <<>>
          /\ IF cl.cur.currentSlots > cl.maxLevel
             THEN /\ promise' = [state |-> "fulfilled", value |-> <<>>]
                  /\ timer' = Null
             ELSE /\ promise' = [state |-> "pending", value |-> <<>>]
                  /\ timer' = cl
    /\ UNCHANGED <<traitConfig, args, uiVars>>

\* the setTimeout callback: depth loop, final sort, resolve
TimerFire ==
    /\ timer # Null
    /\ LET res == DeferredPass(timer)
       IN /\ results' = res
          /\ promise' = [state |-> "fulfilled", value |-> Slice(res)]
    /\ timer' = Null
    /\ UNCHANGED <<traitConfig, optimizedDataCache, args, uiVars>>

\* a caller is done with the list of a call and prepares its next call, with
\* another pool
ChangePool ==
    /\ promise.state = "fulfilled"
    /\ \E p \in Pools \ {args.champions} : args' = [args EXCEPT !.champions = p]
    /\ promise' = NoPromise
    /\ results' = <<>>
    /\ UNCHANGED <<traitConfig, optimizedDataCache, timer, uiVars>>

Next == Search \/ TimerFire

Spec == Init /\ [][Next]_vars

\* a process whose callers pass either pool, from the first call on
InitPools ==
    /\ traitConfig = traitRules
    /\ optimizedDataCache = Null
    /\ \E a \in Inputs, p \in Pools : args = [a EXCEPT !.champions = p]
    /\ timer = Null
    /\ promise = NoPromise
    /\ results = <<>>
    /\ UIStart

NextPools == Search \/ TimerFire \/ ChangePool

SpecPools == InitPools /\ [][NextPools]_vars

\* a page whose trait configuration has more traits than a mask has bits
InitWide ==
    /\ traitConfig = wideRules
    /\ optimizedDataCache = Null
    /\ args \in WideInputs
    /\ timer = Null
    /\ promise = NoPromise
    /\ results = <<>>
    /\ UIStart

SpecWide == InitWide /\ [][Next]_vars

\* calls on the large pool
InitBig ==
    /\ traitConfig = traitRules
    /\ optimizedDataCache = Null
    /\ args \in BigInputs
    /\ timer = Null
    /\ promise = NoPromise
    /\ results = <<>>
    /\ UIStart

SpecBig == InitBig /\ [][Next]_vars

-----------------------------------------------------------------------------
(* The page (src/js/ui.js): lock and ban tags, handleSearch, display *)

\* the units whose names the user types into champInput
UIChamps == {ChoGath, Baron}

\* the values of the maxLevel field and the requirement rows at a search
UILevels == {1, MaxLevel}

UIReqLists == {<<Req("Void", 1)>>}

\* Set.add and Set.delete on a set kept in insertion order
SetAdd(set, c) == IF c \in Range(set) THEN set ELSE Append(set, c)

SetDelete(set, c) == SelectSeq(set, LAMBDA x : x # c)

\* mutant: lock and ban do not look at the other set
manageChamp_Unchecked(type, champ, locked, banned) ==
    IF type = "lock"
    THEN [locked |-> SetAdd(locked, champ), banned |-> banned]
    ELSE [locked |-> locked, banned |-> banned \cup {champ}]

\* manageChamp(type) for a name that finds champ: the two sets after it
manageChamp(type, champ, locked, banned) ==
    IF type = "lock"
    THEN [locked |-> IF champ \notin banned THEN SetAdd(locked, champ) ELSE locked,
          banned |-> banned]
    ELSE [locked |-> locked,
          banned |-> IF champ \notin Range(locked) THEN banned \cup {champ} ELSE banned]

\* mutant: the deferred pass looks the locked and banned sets up when it runs
DeliveredList_LiveSets(call) ==
    LET cl == MakeClosure([call.args EXCEPT !.lockedSet = uiLockedSet,
                                            !.bannedSet = uiBannedSet],
                          optimizedDataCache)
    IN IF cl.cur.currentSlots > cl.maxLevel THEN <<>> ELSE Slice(DeferredPass(cl))

\* the list the setTimeout callback of a call resolves its promise with
DeliveredList(call) == Slice(DeferredPass(call.cl))

InitUI ==
    /\ traitConfig = traitRules
    /\ optimizedDataCache = Null
    /\ args = Null
    /\ timer = Null
    /\ promise = NoPromise
    /\ results = <<>>
    /\ UIStart

\* a click on the lock or the ban button with the name of a unit in champInput
\* (a name that finds no unit changes nothing)
ManageChamp ==
    /\ \E type \in {"lock", "ban"}, champ \in UIChamps :
          LET sets == manageChamp(type, champ, uiLockedSet, uiBannedSet)
          IN /\ uiLockedSet' = sets.locked
             /\ uiBannedSet' = sets.banned
    /\ UNCHANGED <<traitConfig, optimizedDataCache, args, timer, promise, results,
                   timers, started, output>>

\* a click on the button of a tag
RemoveTag ==
    /\ \/ \E c \in Range(uiLockedSet) :
             uiLockedSet' = SetDelete(uiLockedSet, c) /\ UNCHANGED uiBannedSet
       \/ \E c \in uiBannedSet :
             uiBannedSet' = uiBannedSet \ {c} /\ UNCHANGED uiLockedSet
    /\ UNCHANGED <<traitConfig, optimizedDataCache, args, timer, promise, results,
                   timers, started, output>>

\* handleSearch up to its await: the alert, or the call of search, whose promise
\* is either resolved at once (the continuation then displays [] before any other
\* event or timer is handled) or waits for its timer
HandleSearch ==
    /\ started < MaxSearches
    /\ \E maxLvl \in UILevels, reqs \in UIReqLists :
          IF Len(uiLockedSet) > maxLvl
          THEN UNCHANGED <<optimizedDataCache, args, timers, started, output>>
          ELSE LET a == [maxLevel |-> maxLvl, reqs |-> reqs, lockedSet |-> uiLockedSet,
                         bannedSet |-> uiBannedSet, champions |-> champions]
                   data == getOptimizedData(optimizedDataCache, champions)
                   cl == MakeClosure(a, data)
               IN /\ optimizedDataCache' = data
                  /\ args' = a
                  /\ started' = started + 1
                  /\ IF cl.cur.currentSlots > cl.maxLevel
                     THEN /\ output' = [id |-> started + 1, state |-> "shown",
                                        args |-> a, list |-> <<>>]
                          /\ UNCHANGED timers
                     ELSE /\ output' = [id |-> started + 1, state |-> "searching",
                                        args |-> a, list |-> <<>>]
                          /\ timers' = Append(timers, [id |-> started + 1, args |-> a, cl |-> cl])
    /\ UNCHANGED <<traitConfig, timer, promise, results, uiLockedSet, uiBannedSet>>

\* the oldest pending timer fires: the deferred pass resolves the promise and
\* handleSearch goes on behind its await with display(results)
HandleSearchResume ==
    /\ timers # <<>>
    /\ LET call == Head(timers)
       IN output' = [id |-> call.id, state |-> "shown", args |-> call.args,
                     list |-> DeliveredList(call)]
    /\ timers' = Tail(timers)
    /\ UNCHANGED <<traitConfig, optimizedDataCache, args, timer, promise, results,
                   uiLockedSet, uiBannedSet, started>>

NextUI == ManageChamp \/ RemoveTag \/ HandleSearch \/ HandleSearchResume

SpecUI == InitUI /\ [][NextUI]_vars

-----------------------------------------------------------------------------
(* Vocabulary of the properties: what a team is worth, read off the unit    *)
(* data alone (not off the index the search builds)                         *)

CatalogTraits == {traitConfig[i].trait : i \in DOMAIN traitConfig}

\* the list search returned, once its promise is fulfilled
Returned == promise.state = "fulfilled"
ReturnedList == promise.value
ReturnedTeams == {ReturnedList[i].team : i \in DOMAIN ReturnedList}

\* what unit u adds to trait t: its declared override, 1 for a declared trait, else 0
Contribution(u, t) ==
    LET c == Champions[u]
        over == {i \in DOMAIN c.traitCounts : c.traitCounts[i].trait = t}
    IN IF t \notin Range(c.traits) THEN 0
       ELSE IF over # {} THEN c.traitCounts[CHOOSE i \in over : TRUE].count
       ELSE 1

\* the slot cost of a unit: 1 when it declares none
SlotCost(u) == IF Champions[u].slots = 0 THEN 1 ELSE Champions[u].slots

\* aggregate of trait t, slot total and cost of a team given as a sequence (a unit
\* listed twice counts twice)
RECURSIVE Aggregate(_, _)
Aggregate(team, t) ==
    IF team = <<>> THEN 0 ELSE Contribution(Head(team), t) + Aggregate(Tail(team), t)

RECURSIVE SlotTotal(_)
SlotTotal(team) ==
    IF team = <<>> THEN 0 ELSE SlotCost(Head(team)) + SlotTotal(Tail(team))

RECURSIVE CostTotal(_)
CostTotal(team) ==
    IF team = <<>> THEN 0 ELSE Champions[Head(team)].cost + CostTotal(Tail(team))

\* the requirement entries that name a trait of the catalog
CatalogReqs(reqs) == {i \in DOMAIN reqs : reqs[i].trait \in CatalogTraits}

\* the entries that no later entry of the same trait overwrites
LastReqs(reqs) ==
    {i \in CatalogReqs(reqs) : \A j \in DOMAIN reqs : j > i => reqs[j].trait # reqs[i].trait}

MeetsAll(team, reqs) ==
    \A i \in CatalogReqs(reqs) : Aggregate(team, reqs[i].trait) >= reqs[i].target

MeetsLast(team, reqs) ==
    \A i \in LastReqs(reqs) : Aggregate(team, reqs[i].trait) >= reqs[i].target

LockedUnits == Range(args.lockedSet)

\* the units of a team behind the locked ones
AddedUnits(team) == Range(team) \ LockedUnits

-----------------------------------------------------------------------------
(* C1 *)

C2_SlotsWithinBudget ==
    Returned => \A team \in ReturnedTeams : SlotTotal(team) <= args.maxLevel

\* a returned team that fills the budget with a unit of slot cost 2 in it, added
C2_Witness ==
    /\ Returned
    /\ \E team \in ReturnedTeams :
          /\ SlotTotal(team) = args.maxLevel
          /\ Baron \in AddedUnits(team)

(* C3 *)

\* C3: every locked unit is in every returned team
C3_LockedPresent ==
    Returned => \A team \in ReturnedTeams : LockedUnits \subseteq Range(team)

\* two locked units and a returned team with an added unit
C3_Witness ==
    /\ Returned
    /\ Cardinality(LockedUnits) = 2
    /\ \E team \in ReturnedTeams : AddedUnits(team) # {}

(* C4 *)

\* C4 as stated: no banned unit is in a returned team
C4_NoBannedUnit ==
    Returned => \A team \in ReturnedTeams : Range(team) \cap args.bannedSet = {}

\* C4 amended: no banned unit is in a returned team, unless it is locked too
C4_NoBannedUnlessLocked ==
    Returned => \A team \in ReturnedTeams :
                    (Range(team) \cap args.bannedSet) \subseteq LockedUnits

\* a banned unit that would have met the requirement, and a team returned without it
C4_Witness ==
    /\ Returned
    /\ \E u \in args.bannedSet \ LockedUnits :
          \E i \in LastReqs(args.reqs) :
              args.reqs[i].target > 0 /\ Contribution(u, args.reqs[i].trait) > 0
    /\ \E team \in ReturnedTeams : AddedUnits(team) # {}

(* C5 *)

\* C5: no unit is twice in a returned team
C5_NoDuplicate ==
    Returned => \A team \in ReturnedTeams :
                    \A i, j \in DOMAIN team : team[i] = team[j] => i = j

\* a returned team of a locked unit and two added ones, the locked unit being one
\* that meets part of the requirement
C5_Witness ==
    /\ Returned
    /\ \E team \in ReturnedTeams :
          /\ Cardinality(AddedUnits(team)) = 2
          /\ \E u \in LockedUnits : \E i \in LastReqs(args.reqs) :
                 args.reqs[i].target > 0 /\ Contribution(u, args.reqs[i].trait) > 0

(* C6 *)

\* the pool units a search may add
FreeUnits == (Range(args.champions) \ args.bannedSet) \ LockedUnits

RECURSIVE SeqOf(_)
SeqOf(S) ==
    IF S = {} THEN <<>>
    ELSE LET u == CHOOSE x \in S : TRUE IN <<u>> \o SeqOf(S \ {u})

\* the locked units together with the set S of further units
TeamWith(S) == args.lockedSet \o SeqOf(S)

\* such a team fits the budget and meets every requirement
Feasible(S) ==
    /\ SlotTotal(TeamWith(S)) <= args.maxLevel
    /\ MeetsAll(TeamWith(S), args.reqs)

\* C6: no set of fewer free pool units than a returned team adds is feasible
C6_FewestAdded ==
    Returned => \A team \in ReturnedTeams :
                    \A S \in SUBSET FreeUnits :
                        Cardinality(S) < Cardinality(AddedUnits(team)) => ~Feasible(S)

\* a returned team with two added units or more, while a larger set of free
\* units is feasible too
C6_Witness ==
    /\ Returned
    /\ \E team \in ReturnedTeams :
          /\ Cardinality(AddedUnits(team)) >= 2
          /\ \E S \in SUBSET FreeUnits :
                 Cardinality(S) > Cardinality(AddedUnits(team)) /\ Feasible(S)

(* C7 *)

\* C7: consecutive results are ordered by team size ascending, then score
\* descending, then total cost descending
C7_Ordered ==
    Returned =>
        \A i \in 1..(Len(ReturnedList) - 1) :
            LET a == ReturnedList[i]
                b == ReturnedList[i + 1]
            IN /\ Len(a.team) <= Len(b.team)
               /\ Len(a.team) = Len(b.team) => a.score >= b.score
               /\ (Len(a.team) = Len(b.team) /\ a.score = b.score) => a.totalCost >= b.totalCost

\* a returned list with results of different scores and results of one score and
\* different costs
C7_Witness ==
    /\ Returned
    /\ \E i, j \in DOMAIN ReturnedList : ReturnedList[i].score # ReturnedList[j].score
    /\ \E i, j \in DOMAIN ReturnedList :
          /\ ReturnedList[i].score = ReturnedList[j].score
          /\ ReturnedList[i].totalCost # ReturnedList[j].totalCost

(* C8 *)

\* the list the call returns when it is the first call of a process
FirstCallResult(a) ==
    LET cl == MakeClosure(a, BuildOptimizedData(a.champions))
    IN IF cl.cur.currentSlots > cl.maxLevel THEN <<>> ELSE Slice(DeferredPass(cl))

\* C8: a call returns the list the same call returns as the first call of a
\* process, whatever calls came before it
C8_Deterministic ==
    Returned => ReturnedList = FirstCallResult(args)

(* C9 *)

\* C9: with locked units whose slot costs exceed the budget, search resolves at
\* once (no deferred pass is pending), with the empty list and nothing recorded
C9_LockedOverBudget ==
    SlotTotal(args.lockedSet) > args.maxLevel =>
        /\ promise.state # "pending"
        /\ timer = Null
        /\ Returned => (ReturnedList = <<>> /\ results = <<>>)

\* such a call has returned, its requirement list being empty
C9_Witness ==
    /\ Returned
    /\ SlotTotal(args.lockedSet) > args.maxLevel
    /\ args.reqs = <<>>

(* C10 *)

\* the units the candidate filter keeps
FilteredUnits ==
    {u \in FreeUnits :
        CatalogReqs(args.reqs) = {} \/
        \E i \in CatalogReqs(args.reqs) : Contribution(u, args.reqs[i].trait) > 0}

\* requirement entry i has no contributing unit among the filtered candidates
Unreachable(i) == \A u \in FilteredUnits : Contribution(u, args.reqs[i].trait) = 0

\* C10 as stated: a required trait without a contributing candidate makes the
\* returned list empty
C10_UnreachableEmpty ==
    (Returned /\ \E i \in LastReqs(args.reqs) : args.reqs[i].target > 0 /\ Unreachable(i))
        => ReturnedList = <<>>

\* C10 amended: a required trait that the locked units do not already meet and
\* that has no contributing candidate makes the returned list empty
C10_OpenUnreachableEmpty ==
    (Returned /\ \E i \in LastReqs(args.reqs) :
                    /\ args.reqs[i].target > Aggregate(args.lockedSet, args.reqs[i].trait)
                    /\ Unreachable(i))
        => ReturnedList = <<>>

\* the deferred pass has run within the budget for an open requirement that no
\* candidate contributes to, the locked unit contributing a part
C10_Witness ==
    /\ Returned
    /\ SlotTotal(args.lockedSet) < args.maxLevel
    /\ FilteredUnits # {}
    /\ \E i \in LastReqs(args.reqs) :
          /\ args.reqs[i].target > Aggregate(args.lockedSet, args.reqs[i].trait)
          /\ Aggregate(args.lockedSet, args.reqs[i].trait) > 0
          /\ Unreachable(i)

(* C11 *)

\* C11: an index exists only for a trait configuration that fits a mask, so no
\* two trait ids of an index share a mask bit (building the index for a wider
\* configuration fails and leaves no index)
C11_NoSharedBit ==
    optimizedDataCache # Null =>
        /\ optimizedDataCache.numTraits <= MaskWidth
        /\ \A i, j \in 0..(optimizedDataCache.numTraits - 1) : i # j => Bit(i) # Bit(j)

(* C12 *)

\* C12 as stated: a call never records more than MAX_RESULTS results
C12_RecordsAtMostM == Len(results) <= MAX_RESULTS

\* C12 amended: a call never records more than twice MAX_RESULTS results, and
\* the list it returns has at most MAX_RESULTS entries
C12_RecordsAtMostTwiceM ==
    /\ Len(results) <= 2 * MAX_RESULTS
    /\ Len(ReturnedList) <= MAX_RESULTS

\* a call whose search was cut short at twice MAX_RESULTS results: more sets
\* of that size are feasible, and MAX_RESULTS teams were returned
C12_Witness ==
    /\ Returned
    /\ Len(results) = 2 * MAX_RESULTS
    /\ Len(ReturnedList) = MAX_RESULTS
    /\ Cardinality({S \in SUBSET FreeUnits :
                       Cardinality(S) = Len(results[1].team) - Len(args.lockedSet) /\ Feasible(S)})
           > 2 * MAX_RESULTS

(* C13 *)

\* the subsets of S (a set of units) that have k elements
RECURSIVE KSubsets(_, _)
KSubsets(S, k) ==
    IF k = 0 THEN {{}}
    ELSE UNION {{T \cup {x} : T \in KSubsets({y \in S : y > x}, k - 1)} : x \in S}

\* the locked units plus the set S fit the budget and meet the requirements:
\* every entry naming a catalog trait (every = TRUE), or the last one per trait
Qualifies(S, every) ==
    /\ SlotTotal(TeamWith(S)) <= args.maxLevel
    /\ IF every THEN MeetsAll(TeamWith(S), args.reqs) ELSE MeetsLast(TeamWith(S), args.reqs)

QualifyingOfSize(k, every) == {S \in KSubsets(FreeUnits, k) : Qualifies(S, every)}

\* the qualifying sets of the smallest size from k on that has any (a set of
\* units takes at least one slot per unit)
RECURSIVE MinimalFrom(_, _)
MinimalFrom(k, every) ==
    IF k > args.maxLevel - SlotTotal(args.lockedSet) \/ k > Cardinality(FreeUnits) THEN {}
    ELSE IF QualifyingOfSize(k, every) # {} THEN QualifyingOfSize(k, every)
    ELSE MinimalFrom(k + 1, every)

\* the sets of free pool units that qualify with the fewest units
MinimalTeams(every) == MinimalFrom(0, every)

\* the returned list is made of exactly the teams of Q, each once: the locked
\* units in their order, then the units of a set of Q
ReturnsExactly(Q) ==
    /\ Len(ReturnedList) = Cardinality(Q)
    /\ \A i \in DOMAIN ReturnedList :
          LET team == ReturnedList[i].team
              n == Len(args.lockedSet)
          IN /\ Len(team) >= n
             /\ SubSeq(team, 1, n) = args.lockedSet
             /\ Range(SubSeq(team, n + 1, Len(team))) \in Q
             /\ Cardinality(Range(SubSeq(team, n + 1, Len(team)))) = Len(team) - n
    /\ \A S \in Q : \E i \in DOMAIN ReturnedList : AddedUnits(ReturnedList[i].team) = S

\* C13 as stated: when fewer than MAX_RESULTS teams qualify with the fewest added
\* units, the returned list is exactly those teams, qualifying meaning that
\* every requirement entry is met
C13_ExactlyMinimalTeams ==
    (Returned /\ Cardinality(MinimalTeams(TRUE)) < MAX_RESULTS) => ReturnsExactly(MinimalTeams(TRUE))

\* C13 amended: the same, qualifying meaning that the last entry of each
\* required trait is met
C13_ExactlyMinimalTeamsLast ==
    (Returned /\ Cardinality(MinimalTeams(FALSE)) < MAX_RESULTS) => ReturnsExactly(MinimalTeams(FALSE))

\* several teams, fewer than MAX_RESULTS, of a locked unit and two added units
\* or more were returned
C13_Witness ==
    /\ Returned
    /\ args.lockedSet # <<>>
    /\ Len(ReturnedList) > 1
    /\ Cardinality(MinimalTeams(FALSE)) < MAX_RESULTS
    /\ \E S \in MinimalTeams(FALSE) : Cardinality(S) >= 2

(* C14 *)

\* the free units that override their count of trait t to n and fit into the
\* budget behind the locked units
Overriders(t, n) ==
    {u \in FreeUnits :
        /\ \E i \in DOMAIN Champions[u].traitCounts :
               Champions[u].traitCounts[i] = [trait |-> t, count |-> n]
        /\ t \in Range(Champions[u].traits)
        /\ SlotTotal(args.lockedSet) + SlotCost(u) <= args.maxLevel}

\* C14: the index holds for every pool unit and catalog trait the unit's
\* override count, or 1 for a declared trait without override; the seeded
\* counts of the locked units are sums of the same contributions; and when the
\* only requirement is Y >= 2, the locked units do not meet it and a free unit
\* overrides Y to 2, every returned team adds exactly one unit and that unit
\* with the locked units is a returned team
C14_OverrideCounts ==
    /\ optimizedDataCache # Null =>
          \A i \in DOMAIN optimizedDataCache.championData : \A t \in CatalogTraits :
              LET d == optimizedDataCache.championData[i]
              IN d.traitCounts[optimizedDataCache.traitToId[t]] = Contribution(d.original, t)
    /\ timer # Null =>
          \A t \in CatalogTraits :
              timer.cur.currentCounts[optimizedDataCache.traitToId[t]]
                  = Aggregate(args.lockedSet, t)
    /\ \A t \in CatalogTraits :
          (/\ Returned
           /\ args.reqs = <<[trait |-> t, target |-> 2]>>
           /\ Aggregate(args.lockedSet, t) < 2
           /\ Overriders(t, 2) # {})
          => /\ \A team \in ReturnedTeams : Cardinality(AddedUnits(team)) = 1
             /\ \A u \in Overriders(t, 2) :
                    \E team \in ReturnedTeams : team = args.lockedSet \o <<u>>

\* Void >= 2 was asked with a locked unit, and the team of the locked unit and
\* Baron, who counts 2 for Void, was returned
C14_Witness ==
    /\ Returned
    /\ args.reqs = <<[trait |-> "Void", target |-> 2]>>
    /\ LockedUnits # {}
    /\ Baron \in Overriders("Void", 2)
    /\ \E team \in ReturnedTeams : team = args.lockedSet \o <<Baron>>

(* C15 *)

\* the tier thresholds of a catalog trait: [2] when its rule is missing
TiersOf(t) ==
    LET r == traitConfig[CHOOSE i \in DOMAIN traitConfig : traitConfig[i].trait = t]
    IN IF r.hasTiers THEN r.tiers ELSE <<2>>

\* the number of leading thresholds that count reaches
LeadingMet(count, tiers) ==
    Cardinality({j \in DOMAIN tiers : \A i \in 1..j : count >= tiers[i]})

\* the sum of LeadingMet over the traits of T that the team has at all
RECURSIVE ScoreOver(_, _)
ScoreOver(T, team) ==
    IF T = {} THEN 0
    ELSE LET t == CHOOSE x \in T : TRUE
         IN (IF Aggregate(team, t) # 0 THEN LeadingMet(Aggregate(team, t), TiersOf(t)) ELSE 0)
            + ScoreOver(T \ {t}, team)

SynergyScore(team) == ScoreOver(CatalogTraits, team)

\* C15: with an empty requirement list and the locked units within the budget
\* the returned list is the one result of the locked units alone, with their
\* summed cost and the synergy score of their trait counts
C15_EmptyReqsLockedOnly ==
    (Returned /\ args.reqs = <<>> /\ SlotTotal(args.lockedSet) <= args.maxLevel)
        => ReturnedList = << [team      |-> args.lockedSet,
                              score     |-> SynergyScore(args.lockedSet),
                              totalCost |-> CostTotal(args.lockedSet)] >>

\* such a call has returned, its locked units scoring and leaving free slots
C15_Witness ==
    /\ Returned
    /\ args.reqs = <<>>
    /\ args.lockedSet # <<>>
    /\ SlotTotal(args.lockedSet) < args.maxLevel
    /\ SynergyScore(args.lockedSet) > 0
    /\ Len(ReturnedList) = 1

(* C16 *)

C17_LockedOverridesBan ==
    /\ Returned =>
          \A team \in ReturnedTeams : \A u \in LockedUnits \cap args.bannedSet :
              Cardinality({i \in DOMAIN team : team[i] = u}) = 1
    /\ timer # Null =>
          \A i \in DOMAIN timer.candidates : timer.candidates[i].original \notin LockedUnits

\* a team of a unit that is locked and banned and of a further unit was returned
C17_Witness ==
    /\ Returned
    /\ \E team \in ReturnedTeams :
          /\ \E u \in LockedUnits \cap args.bannedSet : u \in Range(team)
          /\ AddedUnits(team) # {}

(* C18 *)

\* the list s without its entry i
RemoveAt(s, i) == SubSeq(s, 1, i - 1) \o SubSeq(s, i + 1, Len(s))

\* a requirement entry with target 0 or with a trait that is not in the catalog
NoOpEntry(r) == r.target = 0 \/ r.trait \notin CatalogTraits

\* entry i is the last entry of its catalog trait and the entry of that trait
\* before it has a positive target: it overwrites that target
Overwrites(reqs, i) ==
    /\ i \in LastReqs(reqs)
    /\ \E j \in 1..(i - 1) :
          /\ reqs[j].trait = reqs[i].trait
          /\ reqs[j].target > 0
          /\ \A k \in (j + 1)..(i - 1) : reqs[k].trait # reqs[i].trait

\* the call with entry i of the requirement list removed returns the same list
SameWithout(i) ==
    ReturnedList = FirstCallResult([args EXCEPT !.reqs = RemoveAt(args.reqs, i)])

\* C18 as stated: removing a requirement entry with target 0 or with a trait
\* absent from the catalog does not change the returned list
C18_NoOpRemovable ==
    Returned => \A i \in DOMAIN args.reqs : NoOpEntry(args.reqs[i]) => SameWithout(i)

\* C18 amended: the same, unless the entry overwrites a positive target of an
\* earlier entry of its trait
C18_NoOpRemovableUnlessOverwriting ==
    Returned => \A i \in DOMAIN args.reqs :
                    (NoOpEntry(args.reqs[i]) /\ ~Overwrites(args.reqs, i)) => SameWithout(i)

\* teams with added units were returned for a list of a requirement with a
\* positive target and an entry with target 0 of another catalog trait, which
\* some free unit has without having the required one
C18_Witness ==
    /\ Returned
    /\ Len(args.reqs) = 2
    /\ \E i, j \in DOMAIN args.reqs :
          /\ args.reqs[i].target = 0
          /\ args.reqs[i].trait \in CatalogTraits
          /\ args.reqs[j].target > 0
          /\ args.reqs[j].trait \in CatalogTraits \ {args.reqs[i].trait}
          /\ \E u \in FreeUnits : /\ Contribution(u, args.reqs[i].trait) > 0
                                   /\ Contribution(u, args.reqs[j].trait) = 0
    /\ \E team \in ReturnedTeams : AddedUnits(team) # {}

(* C19 *)

\* C19 as stated: the first returned team takes the fewest slots of all teams
\* of the locked units and free pool units that fit the budget and meet every
\* requirement
C19_FirstTeamFewestSlots ==
    (Returned /\ ReturnedList # <<>>) =>
        \A S \in SUBSET FreeUnits :
            Qualifies(S, TRUE) => SlotTotal(ReturnedList[1].team) <= SlotTotal(TeamWith(S))

\* C19 amended: the first returned team has the fewest units of all such teams
C19_FirstTeamFewestUnits ==
    (Returned /\ ReturnedList # <<>>) =>
        \A S \in SUBSET FreeUnits :
            Qualifies(S, TRUE) => Len(ReturnedList[1].team) <= Len(TeamWith(S))

\* the first returned team has the fewest units, with a unit of two slots among
\* its added units, while a team of more units qualifies too
C19_Witness ==
    /\ Returned
    /\ ReturnedList # <<>>
    /\ \E u \in AddedUnits(ReturnedList[1].team) : SlotCost(u) > 1
    /\ \E S \in SUBSET FreeUnits :
          Qualifies(S, TRUE) /\ Len(TeamWith(S)) > Len(ReturnedList[1].team)

(* C20 *)

\* the depth-limited search without the suffix-mask check
RECURSIVE SolveUnpruned(_, _, _, _, _)
SolveUnpruned(cl, idx, allowedAdds, cur, res) ==
    IF CapReached(res) THEN res
    ELSE IF getUnsatisfiedMask(cl.neededCounts, cur.currentCounts, cl.numTraits) = {}
         THEN Append(res, ResultOf(cl, cur))
    ELSE IF allowedAdds <= 0 \/ idx >= cl.nCandidates \/ cur.currentSlots >= cl.maxLevel THEN res
    ELSE LET cand == cl.candidates[idx + 1]
             added == IF CanAdd(cur.currentSlots, cand, cl.maxLevel)
                      THEN SolveUnpruned(cl, idx + 1, allowedAdds - 1, AddUnit(cur, cand), res)
                      ELSE res
         IN SolveUnpruned(cl, idx + 1, allowedAdds, cur, added)

\* the depth loop over it
RECURSIVE UnprunedPasses(_, _, _)
UnprunedPasses(cl, depth, res) ==
    IF ContinueDepth(cl, depth, res)
    THEN UnprunedPasses(cl, depth + 1, SolveUnpruned(cl, 0, depth, cl.cur, res))
    ELSE res

\* the list the call returns when its search does not prune
UnprunedResult ==
    LET cl == MakeClosure(args, optimizedDataCache)
    IN IF cl.cur.currentSlots > cl.maxLevel THEN <<>>
       ELSE Slice(SortResults(UnprunedPasses(cl, 0, <<>>)))

\* the mask of a set U of trait ids
MaskOfIds(U) == UNION {Bit(k) : k \in U}

\* whenever the check at a position idx cuts a branch whose open requirements
\* are the traits U, a trait of U has no unit among candidates[idx..], so that
\* no set of them meets the open requirements
CutsOnlyDeadBranches(cl) ==
    \A idx \in 0..cl.nCandidates :
        \A U \in SUBSET {k \in 0..(cl.numTraits - 1) : cl.neededCounts[k] > 0} :
            (U # {} /\ Pruned(MaskOfIds(U), cl.suffixMasks[idx]))
                => \E k \in U : \A i \in (idx + 1)..cl.nCandidates :
                                    cl.candidates[i].traitCounts[k] = 0

\* C20: the check cuts only branches that no set of the remaining candidates
\* can complete, and the returned list is the list of the same search without
\* the check
C20_PruningSound ==
    /\ timer # Null => CutsOnlyDeadBranches(timer)
    /\ Returned => ReturnedList = UnprunedResult

\* teams with added units were returned by a search whose check cut the branch
\* that skips the first candidates: the open requirements of the seeded team
\* can be met from candidates[0..] but not from candidates[idx..]
C20_Witness ==
    /\ Returned
    /\ \E team \in ReturnedTeams : AddedUnits(team) # {}
    /\ LET cl == MakeClosure(args, optimizedDataCache)
           open == getUnsatisfiedMask(cl.neededCounts, cl.cur.currentCounts, cl.numTraits)
       IN \E idx \in 1..(cl.nCandidates - 1) :
              /\ Pruned(open, cl.suffixMasks[idx])
              /\ ~Pruned(open, cl.suffixMasks[0])

(* C21 *)

\* no unit is locked and banned
SetsDisjoint == Range(uiLockedSet) \cap uiBannedSet = {}

\* a step locks no unit that is banned and bans no unit that is locked
KeepsApart ==
    \A c \in UIChamps :
        /\ (c \in uiBannedSet /\ c \notin Range(uiLockedSet)) => c \notin Range(uiLockedSet')
        /\ (c \in Range(uiLockedSet) /\ c \notin uiBannedSet) => c \notin uiBannedSet'

\* C21: after any sequence of lock, ban and tag-removal clicks from two empty
\* sets, lockedSet and bannedSet are disjoint, and no click locks a banned
\* unit or bans a locked one
C21_LockedBannedDisjoint == []SetsDisjoint /\ [][KeepsApart]_vars

\* one unit is locked and another banned, after a tag was removed: the banned
\* unit was locked before
C21_Witness ==
    /\ ChoGath \in Range(uiLockedSet)
    /\ Baron \in uiBannedSet
    /\ output.state = "shown"
    /\ Baron \in Range(output.args.lockedSet)

(* C22 *)

\* C22: when the locked units and some set of free pool units fit the budget
\* and meet every requirement, the returned list is not empty
C22_Complete ==
    (Returned /\ \E S \in SUBSET FreeUnits : Qualifies(S, TRUE)) => ReturnedList # <<>>

(* C23 *)

\* the pass that may add up to k units records a result for the returned call
PassYields(k) ==
    LET cl == MakeClosure(args, optimizedDataCache)
    IN solve_depth_limited(cl, 0, k, cl.cur, <<>>) # <<>>

\* C23: the teams of a returned list all have |locked| + d units, d being the
\* first pass that records a result
C23_SameSize ==
    (Returned /\ ReturnedList # <<>>) =>
        \E d \in 0..args.maxLevel :
            /\ PassYields(d)
            /\ \A k \in 0..(d - 1) : ~PassYields(k)
            /\ \A i \in DOMAIN ReturnedList :
                   Len(ReturnedList[i].team) = Len(args.lockedSet) + d

\* several teams of a locked unit and two added units were returned, while a
\* team of more units qualifies too
C23_Witness ==
    /\ Returned
    /\ Len(ReturnedList) >= 2
    /\ args.lockedSet # <<>>
    /\ Len(ReturnedList[1].team) >= Len(args.lockedSet) + 2
    /\ \E S \in SUBSET FreeUnits :
          Qualifies(S, FALSE) /\ Len(TeamWith(S)) > Len(ReturnedList[1].team)

(* C24 *)

\* the sequence s without the unit u
Without(s, u) == SelectSeq(s, LAMBDA x : x # u)

\* C24: every added unit of a returned team is needed: some requirement with a
\* positive target that the unit contributes to is unmet without it
C24_Irredundant ==
    Returned =>
        \A team \in ReturnedTeams : \A u \in AddedUnits(team) :
            \E i \in LastReqs(args.reqs) :
                /\ args.reqs[i].target > 0
                /\ Contribution(u, args.reqs[i].trait) > 0
                /\ Aggregate(Without(team, u), args.reqs[i].trait) < args.reqs[i].target

\* a team of two added units or more was returned for two required traits, a
\* free unit that has one of them being left out
C24_Witness ==
    /\ Returned
    /\ Cardinality({args.reqs[i].trait : i \in {j \in LastReqs(args.reqs) : args.reqs[j].target > 0}}) = 2
    /\ \E team \in ReturnedTeams :
          /\ Cardinality(AddedUnits(team)) >= 2
          /\ \E u \in FilteredUnits \ Range(team) : TRUE

(* C25 *)

\* C25: the list a search shows is the list of its requirements, locked set and
\* banned set as they were when the search was started, whatever was locked,
\* banned or removed while it was deferred
C25_SnapshotAtInvocation ==
    output.state = "shown" => output.list = FirstCallResult(output.args)

\* the first search has shown its teams while the second, started before with
\* other locked or banned units, is still deferred, and a search with those
\* units gives another list
C25_Witness ==
    /\ output.state = "shown"
    /\ output.id = 1
    /\ output.list # <<>>
    /\ timers # <<>>
    /\ LET later == Head(timers).args
       IN /\ <<later.lockedSet, later.bannedSet>> # <<output.args.lockedSet, output.args.bannedSet>>
          /\ FirstCallResult([output.args EXCEPT !.lockedSet = later.lockedSet,
                                                 !.bannedSet = later.bannedSet]) # output.list

(* C26 *)

\* C26: once every started search has delivered, the output shown is that of
\* the search started last
C26_LatestShown ==
    (started > 0 /\ timers = <<>>) => output.id = started

====
